---- MODULE Spec2Model ----
(***************************************************************************)
(* The sudosh become plugin (ansible_plugins/become/sudosh.py): the        *)
(* command builder build_become_command and the response classifiers       *)
(* check_success / check_password_prompt / check_incorrect_password of one  *)
(* BecomeModule instance, used by one escalation at a time or shared.       *)
(*                                                                          *)
(* Python str and bytes values are TLA+ strings; Len, \o and SubSeq work on *)
(* them character by character.  An option whose value is None and an      *)
(* option whose value is '' are both written "": the plugin reads every    *)
(* option through `x or default` or `if x`, which cannot tell them apart.   *)
(***************************************************************************)
EXTENDS Integers, Sequences, FiniteSets, TLC

VARIABLES
    prompt,     \* self.prompt: the password prompt the instance expects
    id,         \* self._id: identifier of the latest escalation
    success,    \* self.success: the success key of the latest escalation
    op,         \* the method called last ("new" right after construction)
    args,       \* the arguments, options and environment of that call
    ret,        \* what the call returned: [kind |-> "return" | "raise", value]
    frame,      \* the locals of build_become_command when it returned
    callers     \* the escalations sharing the instance: where each one stands

vars == <<prompt, id, success, op, args, ret, frame, callers>>

----------------------------------------------------------------------------
(* Python string primitives *)

CharAt(s, i) == SubSeq(s, i, i)

CharSet(s) == {CharAt(s, i) : i \in 1..Len(s)}

\* str.startswith
StartsWith(s, p) == Len(s) >= Len(p) /\ SubSeq(s, 1, Len(p)) = p

\* `sub in s`
Contains(s, sub) ==
    \E j \in 1..(Len(s) - Len(sub) + 1) : SubSeq(s, j, j + Len(sub) - 1) = sub

Min(S) == CHOOSE x \in S : \A y \in S : x <= y

Max(S) == CHOOSE x \in S : \A y \in S : y <= x

\* str.find from position i (1-based); 0 when absent
FindFrom(s, sub, i) ==
    LET at == {j \in i..(Len(s) - Len(sub) + 1) : SubSeq(s, j, j + Len(sub) - 1) = sub}
    IN  IF at = {} THEN 0 ELSE Min(at)

\* str.replace(old, new): every non-overlapping occurrence, left to right
RECURSIVE Replace(_, _, _)
Replace(s, old, new) ==
    LET j == FindFrom(s, old, 1) IN
    IF old = "" \/ j = 0 THEN s
    ELSE SubSeq(s, 1, j - 1) \o new
         \o Replace(SubSeq(s, j + Len(old), Len(s)), old, new)

Whitespace == {" ", "\t", "\n", "\r"}

\* the positions of s that hold no whitespace
Inked(s) == {i \in 1..Len(s) : CharAt(s, i) \notin Whitespace}

\* str.lstrip(), str.rstrip(), str.strip()
LStrip(s) == IF Inked(s) = {} THEN "" ELSE SubSeq(s, Min(Inked(s)), Len(s))

RStrip(s) == IF Inked(s) = {} THEN "" ELSE SubSeq(s, 1, Max(Inked(s)))

Strip(s) == RStrip(LStrip(s))

\* sep.join(parts)
RECURSIVE Join(_, _)
Join(parts, sep) ==
    IF parts = <<>> THEN ""
    ELSE IF Len(parts) = 1 THEN parts[1]
    ELSE parts[1] \o sep \o Join(Tail(parts), sep)

\* the characters the regular expression class \w matches
WordChars ==
    CharSet("abcdefghijklmnopqrstuvwxyzABCDEFGHIJKLMNOPQRSTUVWXYZ0123456789_")

\* number of elements of seq equal to x
Count(seq, x) == Cardinality({i \in DOMAIN seq : seq[i] = x})

----------------------------------------------------------------------------
(* shlex.split(s): POSIX shell word splitting, comments off.  The lexer   *)
(* state is " " between words, "a" inside a word, a quote character       *)
(* inside quotes and "\\" after an escape character.                       *)

Quotes == {"'", "\""}

ShlexStart ==
    [state |-> " ", escapedstate |-> " ", token |-> "", quoted |-> FALSE, out |-> <<>>]

\* the lexer reads the character c
ShlexStep(x, c) ==
    CASE x.state = " " ->
            IF c \in Whitespace THEN x
            ELSE IF c = "\\" THEN [x EXCEPT !.state = "\\", !.escapedstate = "a"]
            ELSE IF c \in Quotes THEN [x EXCEPT !.state = c, !.quoted = TRUE]
            ELSE [x EXCEPT !.state = "a", !.token = c]
      [] x.state \in Quotes ->
            IF c = x.state THEN [x EXCEPT !.state = "a"]
            ELSE IF c = "\\" /\ x.state = "\""
            THEN [x EXCEPT !.state = "\\", !.escapedstate = x.state]
            ELSE [x EXCEPT !.token = @ \o c]
      [] x.state = "\\" ->
            [x EXCEPT !.state = x.escapedstate,
                      !.token = IF x.escapedstate \in Quotes /\ c # "\\" /\ c # x.escapedstate
                                THEN @ \o "\\" \o c ELSE @ \o c]
      [] OTHER ->   \* x.state = "a"
            IF c \in Whitespace THEN
                [x EXCEPT !.state = " ", !.token = "", !.quoted = FALSE,
                          !.out = IF x.token # "" \/ x.quoted THEN Append(@, x.token) ELSE @]
            ELSE IF c \in Quotes THEN [x EXCEPT !.state = c, !.quoted = TRUE]
            ELSE IF c = "\\" THEN [x EXCEPT !.state = "\\", !.escapedstate = "a"]
            ELSE [x EXCEPT !.token = @ \o c]

\* the lexer reads s[i..j]
RECURSIVE ShlexScan(_, _, _, _)
ShlexScan(s, i, j, x) ==
    IF i > j THEN x
    ELSE IF i = j THEN ShlexStep(x, CharAt(s, i))
    ELSE LET m == (i + j) \div 2
             left == ShlexScan(s, i, m, x)
         IN  \* the test makes TLC evaluate the left half before the right one
             IF left.state = "" THEN left ELSE ShlexScan(s, m + 1, j, left)

\* ok is FALSE where shlex raises ValueError: no closing quotation, or no
\* escaped character
ShlexSplit(s) ==
    LET x == ShlexScan(s, 1, Len(s), ShlexStart) IN
    IF x.state \in Quotes \/ x.state = "\\" THEN [ok |-> FALSE, tokens |-> x.out]
    ELSE IF x.state = "a" /\ (x.token # "" \/ x.quoted)
    THEN [ok |-> TRUE, tokens |-> Append(x.out, x.token)]
    ELSE [ok |-> TRUE, tokens |-> x.out]

----------------------------------------------------------------------------
(* The plugin's class attributes *)

name == "sudosh"

\* messages for detecting prompted password issues
fail == <<"Sorry, try again.", "sudosh: authentication failed">>

missing == <<"Sorry, a password is required to run sudosh", "sudosh: password required">>

\* os.environ is a function from the names that are set to their values
EnvironGet(environ, key, default) ==
    IF key \in DOMAIN environ THEN environ[key] ELSE default

----------------------------------------------------------------------------
(* build_become_command, local by local.  o holds the call's cmd, shell,   *)
(* the resolved options (get_option) and os.environ.                        *)

becomecmd(o) == IF o.become_exe # "" THEN o.become_exe ELSE name

\* flags with the empty option taken as no flags at all
flags_no_default(o) ==
    IF o.sudosh_detection_verbose THEN o.become_flags
    ELSE Strip(Replace(o.become_flags, "--ansible-verbose", ""))

\* flags as it stands when it is tokenized: the option or the default, with
\* the verbose flag cut out of the string when verbose detection is off
flags(o) ==
    LET configured == IF o.become_flags # "" THEN o.become_flags
                      ELSE "--ansible-detect --ansible-verbose"
    IN  IF o.sudosh_detection_verbose THEN configured
        ELSE Strip(Replace(configured, "--ansible-verbose", ""))

OptionalEnv(o, key) ==
    IF EnvironGet(o.environ, key, "") # ""
    THEN <<key \o "=" \o EnvironGet(o.environ, key, "")>> ELSE <<>>

\* the annotations with the module name and task uuid left out when unset
ansible_env_vars_no_defaults(o) ==
    << "ANSIBLE_BECOME_METHOD=sudosh",
       "ANSIBLE_BECOME_USER=" \o (IF o.become_user # "" THEN o.become_user ELSE "root") >>
    \o OptionalEnv(o, "ANSIBLE_MODULE_NAME")
    \o OptionalEnv(o, "ANSIBLE_TASK_UUID")
    \o OptionalEnv(o, "ANSIBLE_PLAYBOOK_DIR")
    \o OptionalEnv(o, "ANSIBLE_INVENTORY")
    \o OptionalEnv(o, "ANSIBLE_CONFIG")

ansible_env_vars(o) ==
    << "ANSIBLE_BECOME_METHOD=sudosh",
       "ANSIBLE_BECOME_USER=" \o (IF o.become_user # "" THEN o.become_user ELSE "root"),
       "ANSIBLE_MODULE_NAME=" \o EnvironGet(o.environ, "ANSIBLE_MODULE_NAME", "unknown"),
       "ANSIBLE_TASK_UUID=" \o EnvironGet(o.environ, "ANSIBLE_TASK_UUID", "unknown") >>
    \o OptionalEnv(o, "ANSIBLE_PLAYBOOK_DIR")
    \o OptionalEnv(o, "ANSIBLE_INVENTORY")
    \o OptionalEnv(o, "ANSIBLE_CONFIG")

sudosh_flags(o) ==
    (IF o.sudosh_detection_force THEN <<"--ansible-force">> ELSE <<>>)
    \o (IF o.sudosh_detection_verbose THEN <<"--ansible-verbose">> ELSE <<>>)
    \o (IF ~o.sudosh_session_log THEN <<"--no-session-log">> ELSE <<>>)

\* shlex.split(flags) if flags; ok is FALSE where it raises ValueError
SplitFlags(fl) == IF fl # "" THEN ShlexSplit(fl) ELSE [ok |-> TRUE, tokens |-> <<>>]

\* the length of the run of word characters of s that starts at position i
WordRun(s, i) ==
    Min({j \in i..(Len(s) + 1) : j > Len(s) \/ CharAt(s, j) \notin WordChars}) - i

\* re.sub(r'^(-\w*)n(\w*.*)', r'\1\2', flag): \w* is greedy, so the n that goes
\* is the last one of the run of word characters that follows the dash
ReSubN(flag) ==
    IF ~StartsWith(flag, "-") THEN flag
    ELSE LET ns == {i \in 2..(1 + WordRun(flag, 2)) : CharAt(flag, i) = "n"} IN
         IF ns = {} THEN flag
         ELSE SubSeq(flag, 1, Max(ns) - 1) \o SubSeq(flag, Max(ns) + 1, Len(flag))

\* "Remove non-interactive flags if password is provided"
RECURSIVE reflag(_)
reflag(fs) ==
    IF fs = <<>> THEN <<>>
    ELSE LET flag == Head(fs) IN
         IF flag \in {"-n", "--non-interactive"} THEN reflag(Tail(fs))
         ELSE IF ~StartsWith(flag, "--") THEN <<ReSubN(flag)>> \o reflag(Tail(fs))
         ELSE <<flag>> \o reflag(Tail(fs))

\* all_flags at the return: the tokens of flags, then the plugin's own flags,
\* rid of the non-interactive ones when a password is configured
all_flags(o, tokens) ==
    IF o.become_pass # "" THEN reflag(tokens \o sudosh_flags(o))
    ELSE tokens \o sudosh_flags(o)

\* `-u` passed for the resolved user, configured or not
user_flag_resolved(o) == "-u " \o (IF o.become_user # "" THEN o.become_user ELSE "root")

user_flag(o) == IF o.become_user # "" THEN "-u " \o o.become_user ELSE ""

\* shlex.quote
SafeChars == WordChars \cup CharSet("@%+=:,./-")

ShlexQuote(s) ==
    IF s = "" THEN "''"
    ELSE IF CharSet(s) \subseteq SafeChars THEN s
    ELSE "'" \o Replace(s, "'", "'\"'\"'") \o "'"

\* self._build_success_command(cmd, shell) of the base class: the command
\* behind an echo of the success key, quoted, handed to the shell executable
BuildSuccessCommand(cmd, shell, key) ==
    IF cmd = "" \/ key = "" THEN cmd
    ELSE LET quoted == ShlexQuote("echo " \o key \o " ; " \o cmd)
         IN  IF shell # "" THEN shell \o " -c " \o quoted ELSE quoted

\* the parts with the user selection put before the flags
cmd_parts_user_first(o, key, flag_tokens) ==
    <<"env">> \o ansible_env_vars(o)
    \o <<becomecmd(o)>>
    \o (IF user_flag(o) # "" THEN <<user_flag(o)>> ELSE <<>>)
    \o (IF Join(flag_tokens, " ") # "" THEN <<Join(flag_tokens, " ")>> ELSE <<>>)
    \o <<BuildSuccessCommand(o.cmd, o.shell, key)>>

\* "Build the final command"
cmd_parts(o, key, flag_tokens) ==
    LET env_prefix == Join(ansible_env_vars(o), " ")
        flags_str == Join(flag_tokens, " ")
    IN  (IF env_prefix # "" THEN <<"env">> \o ansible_env_vars(o) ELSE <<>>)
        \o <<becomecmd(o)>>
        \o (IF flags_str # "" THEN <<flags_str>> ELSE <<>>)
        \o (IF user_flag(o) # "" THEN <<user_flag(o)>> ELSE <<>>)
        \o <<BuildSuccessCommand(o.cmd, o.shell, key)>>

PromptFor(i) == "[sudosh via ansible, key=" \o i \o "] password:"

SuccessKey(i) == "BECOME-SUCCESS-" \o i

Return(v) == [kind |-> "return", value |-> v]

Raise(e) == [kind |-> "raise", value |-> e]

NoFrame == [all_flags |-> <<>>, cmd_parts |-> <<>>]

\* the early return left out
EarlyReturn_never(cmd) == FALSE

\* `if not cmd: return cmd`
EarlyReturn(cmd) == cmd = ""

\* The body of build_become_command past the call of the base class: what it
\* returns or raises, its locals at the return, and whether it has set
\* self.prompt on the way.
Build(o, key) ==
    IF EarlyReturn(o.cmd)
    THEN [ret |-> Return(o.cmd), frame |-> NoFrame, prompted |-> FALSE]
    ELSE LET split == SplitFlags(flags(o)) IN
         IF ~split.ok
         THEN [ret |-> Raise("ValueError"), frame |-> NoFrame, prompted |-> FALSE]
         ELSE LET tokens == all_flags(o, split.tokens)
                  parts == cmd_parts(o, key, tokens)
              IN  [ret |-> Return(Join(parts, " ")),
                   frame |-> [all_flags |-> tokens, cmd_parts |-> parts],
                   prompted |-> o.become_pass # ""]

\* One call of build_become_command.  The base class draws a fresh _id and
\* sets the success key first, whatever cmd is.
BuildBecomeCommand(o, newid) ==
    /\ id' = newid
    /\ success' = SuccessKey(newid)
    /\ op' = "build_become_command"
    /\ args' = o
    /\ LET b == Build(o, SuccessKey(newid)) IN
          /\ prompt' = (IF b.prompted THEN PromptFor(newid) ELSE prompt)
          /\ ret' = b.ret
          /\ frame' = b.frame

----------------------------------------------------------------------------
(* The response classifiers *)

\* the escalations that may share one instance
Escalations == {"e1", "e2"}

\* an escalation that has not built its command yet
Idle == [pc |-> "idle", become_pass |-> "", id |-> ""]

NoCallers == [e \in Escalations |-> Idle]

\* bytes.splitlines(): lines end at \n, \r or \r\n; the ends are dropped
RECURSIVE LinesFrom(_, _)
LinesFrom(b, i) ==
    IF i > Len(b) THEN <<>>
    ELSE LET ends == {j \in i..Len(b) : CharAt(b, j) \in {"\n", "\r"}} IN
         IF ends = {} THEN <<SubSeq(b, i, Len(b))>>
         ELSE LET e == Min(ends) IN
              <<SubSeq(b, i, e - 1)>>
              \o LinesFrom(b, IF e < Len(b) /\ SubSeq(b, e, e + 1) = "\r\n" THEN e + 2 ELSE e + 1)

SplitLines(b) == LinesFrom(b, 1)

UpperCase == "ABCDEFGHIJKLMNOPQRSTUVWXYZ"

LowerCase == "abcdefghijklmnopqrstuvwxyz"

\* bytes.lower()
RECURSIVE Lower(_)
Lower(s) ==
    IF s = "" THEN ""
    ELSE IF Len(s) = 1
    THEN LET k == FindFrom(UpperCase, s, 1) IN IF k = 0 THEN s ELSE CharAt(LowerCase, k)
    ELSE LET m == Len(s) \div 2 IN Lower(SubSeq(s, 1, m)) \o Lower(SubSeq(s, m + 1, Len(s)))

\* check_success of the base class: some line carries the success key
BaseCheckSuccess(b_output, key) ==
    LET lines == SplitLines(b_output) IN
    \E i \in DOMAIN lines : Contains(RStrip(lines[i]), key)

success_indicators ==
    << "sudosh: Ansible session detected",
       "sudosh: Augment session detected",
       "sudosh: authentication successful" >>

\* the fall-through taking a structured response's success field for a match
check_success_json(b_output, key) ==
    \/ BaseCheckSuccess(b_output, key)
    \/ LET lines == SplitLines(b_output) IN
       \E i \in DOMAIN lines :
          \/ \E k \in DOMAIN success_indicators : Contains(lines[i], success_indicators[k])
          \/ Contains(lines[i], "\"success\": true")

check_success(b_output, key) ==
    \/ BaseCheckSuccess(b_output, key)
    \/ LET lines == SplitLines(b_output) IN
       \E i \in DOMAIN lines : \E k \in DOMAIN success_indicators :
          Contains(lines[i], success_indicators[k])

\* check_password_prompt of the base class: some line starts with self.prompt
BaseCheckPasswordPrompt(b_output, p) ==
    /\ p # ""
    /\ LET lines == SplitLines(b_output) IN
       \E i \in DOMAIN lines : StartsWith(Strip(lines[i]), Strip(p))

\* the prompt list without the `sudosh:` marker
sudosh_prompts_no_program_marker == <<"[sudosh]", "Password:", "password:">>

sudosh_prompts == <<"[sudosh]", "sudosh:", "Password:", "password:">>

check_password_prompt(b_output, p) ==
    \/ BaseCheckPasswordPrompt(b_output, p)
    \/ LET lines == SplitLines(b_output) IN
       \E i \in DOMAIN lines :
          LET line == Lower(Strip(lines[i])) IN
          \E k \in DOMAIN sudosh_prompts : Contains(line, Lower(sudosh_prompts[k]))

\* check_incorrect_password, inherited: a message of `fail` occurs in the output
check_incorrect_password(b_output) ==
    \E k \in DOMAIN fail : fail[k] # "" /\ Contains(b_output, fail[k])

\* check_missing_password, inherited: a message of `missing` occurs in the output
check_missing_password(b_output) ==
    \E k \in DOMAIN missing : missing[k] # "" /\ Contains(b_output, missing[k])

\* The spawned command's output reaches the caller, which then classifies it.
Receive(outputs) ==
    /\ op = "build_become_command"
    /\ ret.kind = "return"
    /\ \E out \in outputs :
          /\ op' = "receive"
          /\ args' = [b_output |-> out]
          /\ ret' = Return(out)
    /\ UNCHANGED <<prompt, id, success, frame, callers>>

Classifying == op \notin {"new", "build_become_command"}

CheckSuccess ==
    /\ Classifying
    /\ op' = "check_success"
    /\ args' = [b_output |-> args.b_output]
    /\ ret' = Return(check_success(args.b_output, success))
    /\ UNCHANGED <<prompt, id, success, frame, callers>>

CheckPasswordPrompt ==
    /\ Classifying
    /\ op' = "check_password_prompt"
    /\ args' = [b_output |-> args.b_output]
    /\ ret' = Return(check_password_prompt(args.b_output, prompt))
    /\ UNCHANGED <<prompt, id, success, frame, callers>>

CheckIncorrectPassword ==
    /\ Classifying
    /\ op' = "check_incorrect_password"
    /\ args' = [b_output |-> args.b_output]
    /\ ret' = Return(check_incorrect_password(args.b_output))
    /\ UNCHANGED <<prompt, id, success, frame, callers>>

CheckMissingPassword ==
    /\ Classifying
    /\ op' = "check_missing_password"
    /\ args' = [b_output |-> args.b_output]
    /\ ret' = Return(check_missing_password(args.b_output))
    /\ UNCHANGED <<prompt, id, success, frame, callers>>

----------------------------------------------------------------------------
(* Bounded inputs *)

MaxFlagTokens == 2

MaxLines == 2

\* values _gen_id may draw
Ids == {"aaaa", "bbbb"}

\* every string of at most n items of `items` joined by sep
RECURSIVE Joined(_, _, _)
Joined(items, sep, n) ==
    IF n = 0 THEN {""}
    ELSE Joined(items, sep, n - 1)
         \cup items
         \cup {s \o sep \o t : s \in Joined(items, sep, n - 1) \ {""}, t \in items}

FlagTokens ==
    { "--ansible-verbose", "--ansible-force", "--non-interactive", "-n",
      "-anc", "-abc", "-nn", "--ansible-verbose=2", "''", "\"-x" }

FlagStrings == Joined(FlagTokens, " ", MaxFlagTokens)

EnvKeys ==
    { "ANSIBLE_MODULE_NAME", "ANSIBLE_TASK_UUID", "ANSIBLE_PLAYBOOK_DIR",
      "ANSIBLE_INVENTORY", "ANSIBLE_CONFIG" }

EnvValue(key) ==
    CASE key = "ANSIBLE_MODULE_NAME" -> "ping"
      [] key = "ANSIBLE_TASK_UUID" -> "0242ac11-0001"
      [] key = "ANSIBLE_PLAYBOOK_DIR" -> "/srv/play"
      [] key = "ANSIBLE_INVENTORY" -> "/srv/hosts"
      [] OTHER -> "/srv/ansible.cfg"

\* every subset of the names set, and all of them set to the empty string
Environs ==
    {[k \in S |-> EnvValue(k)] : S \in SUBSET EnvKeys} \cup {[k \in EnvKeys |-> ""]}

NoEnviron == [k \in {} |-> ""]

Options(cmd, exe, user, fl, pass, log, force, verbose, environ) ==
    [ cmd |-> cmd, shell |-> "/bin/sh", become_exe |-> exe, become_user |-> user,
      become_flags |-> fl, become_pass |-> pass, sudosh_session_log |-> log,
      sudosh_detection_force |-> force, sudosh_detection_verbose |-> verbose,
      environ |-> environ ]

\* calls that vary the flag string and the switches that act on it
FlagInputs ==
    { Options("ls", "", "root", fl, pass, TRUE, force, verbose, NoEnviron) :
        fl \in FlagStrings, pass \in {"", "secret"}, force \in BOOLEAN, verbose \in BOOLEAN }

\* calls that vary everything else
EnvInputs ==
    { Options(c[1], c[2], c[3], c[4], c[5], c[6], FALSE, TRUE, environ) :
        c \in {"", "ls -la /tmp"} \X {"", "/usr/bin/sudosh"} \X {"", "deploy"}
              \X {"", "-n", "\"-x"} \X {"", "secret"} \X BOOLEAN,
        environ \in Environs }

BuildInputs == FlagInputs \cup EnvInputs

\* the calls one reused instance sees
ReuseInputs ==
    { Options(cmd, "", "root", "", pass, TRUE, FALSE, TRUE, NoEnviron) :
        cmd \in {"", "ls"}, pass \in {"", "secret"} }

\* the structured responses: json.dumps of success, exit_code and one more key
JsonExtras ==
    { "", ", \"stdout\": \"command output\"", ", \"error\": \"Command failed\"",
      ", \"error\": \"Incorrect password\"", ", \"error\": \"Password required\"" }

JsonResponses ==
    {j \in [success : BOOLEAN, exit_code : {"0", "1"}, extra : JsonExtras] :
        j.success <=> j.exit_code = "0"}

JsonDumps(j) ==
    "{\"success\": " \o (IF j.success THEN "true" ELSE "false")
    \o ", \"exit_code\": " \o j.exit_code \o j.extra \o "}"

OutputLines ==
    { "Some output", "SUDOSH_ANSIBLE_SUCCESS", "sudosh: Ansible session detected",
      "Sorry, try again.", "BECOME-SUCCESS-aaaa", "[sudosh via ansible, key=aaaa] password:" }

\* what an escalation may read while it waits for a prompt
PromptOutputs == {"Some output", "Password:"} \cup {PromptFor(i) : i \in Ids}

\* the escalations of a reused instance: each has a command to run
EscalationInputs == {o \in ReuseInputs : o.cmd # ""}

\* single lines carrying the other success markers, bare and inside other text
MarkerLines ==
    { "sudosh: Augment session detected", "sudosh: authentication successful",
      "  [ok] sudosh: authentication successful (deploy)" }

Outputs ==
    {JsonDumps(j) : j \in JsonResponses} \cup Joined(OutputLines, "\n", MaxLines) \cup MarkerLines

----------------------------------------------------------------------------
(* Specifications *)

\* a freshly constructed BecomeModule
Fresh ==
    /\ prompt = ""
    /\ id = ""
    /\ success = ""
    /\ op = "new"
    /\ args = [b_output |-> ""]
    /\ ret = Return("")
    /\ frame = NoFrame
    /\ callers = NoCallers

Init == Fresh

\* one instance reused for escalation after escalation
Next ==
    \/ \E o \in ReuseInputs, newid \in Ids : BuildBecomeCommand(o, newid) /\ UNCHANGED callers
    \/ Receive(Outputs)
    \/ CheckSuccess
    \/ CheckPasswordPrompt
    \/ CheckIncorrectPassword
    \/ CheckMissingPassword

Spec == Init /\ [][Next]_vars

\* an instance that has or has not asked for a password before
InitBuild ==
    /\ \E i \in {""} \cup Ids :
          /\ id = i
          /\ success = (IF i = "" THEN "" ELSE SuccessKey(i))
          /\ prompt = (IF i = "" THEN "" ELSE PromptFor(i))
    /\ op = "new"
    /\ args = [b_output |-> ""]
    /\ ret = Return("")
    /\ frame = NoFrame
    /\ callers = NoCallers

\* build_become_command as a function of its inputs: one call per behaviour
NextBuild ==
    /\ op = "new"
    /\ \E o \in BuildInputs, newid \in Ids : BuildBecomeCommand(o, newid)
    /\ UNCHANGED callers

SpecBuild == InitBuild /\ [][NextBuild]_vars

\* Escalation e has its command built: it resolves its own options and calls
\* build_become_command on the shared instance; _gen_id draws an identifier
\* no other escalation in progress holds.
EscalationBuild(e, inputs) ==
    /\ callers[e].pc = "idle"
    /\ \E o \in inputs, newid \in Ids \ {callers[x].id : x \in Escalations} :
          /\ BuildBecomeCommand(o, newid)
          /\ callers' = [callers EXCEPT ![e] =
                            [pc |-> "built", become_pass |-> o.become_pass, id |-> newid]]

\* Escalation e hands output of its command to check_password_prompt, which
\* consults self.prompt, and is done.
EscalationCheckPasswordPrompt(e, outputs) ==
    /\ callers[e].pc = "built"
    /\ \E out \in outputs :
          /\ op' = "check_password_prompt"
          /\ args' = [b_output |-> out]
          /\ ret' = Return(check_password_prompt(out, prompt))
    /\ callers' = [callers EXCEPT ![e] = Idle]
    /\ UNCHANGED <<prompt, id, success, frame>>

\* one instance shared by several escalations, their calls interleaved
NextReuse ==
    \E e \in Escalations :
       \/ EscalationBuild(e, EscalationInputs)
       \/ EscalationCheckPasswordPrompt(e, PromptOutputs)

SpecReuse == Init /\ [][NextReuse]_vars

----------------------------------------------------------------------------
(* Properties of build_become_command *)

\* the last call was build_become_command with a non-empty cmd and it returned
Built == op = "build_become_command" /\ ret.kind = "return" /\ args.cmd # ""

ResolvedExe == IF args.become_exe # "" THEN args.become_exe ELSE "sudosh"

ResolvedUser == IF args.become_user # "" THEN args.become_user ELSE "root"

NoAmbient == DOMAIN args.environ \cap EnvKeys = {}

\* s up to its first space
FirstToken(s) ==
    IF FindFrom(s, " ", 1) = 0 THEN s ELSE SubSeq(s, 1, FindFrom(s, " ", 1) - 1)

IsAnnotation(part) == StartsWith(part, "ANSIBLE_") /\ Contains(part, "=")

\* the position of the executable among the parts: past `env` and the annotations
ExeIndex(parts) ==
    Min({i \in 1..(Len(parts) + 1) :
            i > Len(parts) \/ (parts[i] # "env" /\ ~IsAnnotation(parts[i]))})

\* where part i starts in the parts joined by single spaces
RECURSIVE Offset(_, _)
Offset(parts, i) == IF i = 1 THEN 1 ELSE Offset(parts, i - 1) + Len(parts[i - 1]) + 1

\* C1 as stated: with none of the five ambient variables set, the invocation
\* has no env prefix and its first token is the executable.
C1_NoEnvPrefix == (Built /\ NoAmbient) => FirstToken(ret.value) = ResolvedExe

\* C1 as amended: with none of the five ambient variables set, the invocation
\* still opens with the env prefix: the keyword env, then exactly the four
\* fixed annotations (method sudosh, the target user or root, module name
\* unknown, task uuid unknown), then the executable.
C1_EnvPrefixWithDefaults ==
    (Built /\ NoAmbient) =>
        StartsWith(ret.value,
            "env ANSIBLE_BECOME_METHOD=sudosh ANSIBLE_BECOME_USER=" \o ResolvedUser
            \o " ANSIBLE_MODULE_NAME=unknown ANSIBLE_TASK_UUID=unknown "
            \o ResolvedExe \o " ")

C1_Witness == Built /\ NoAmbient /\ args.become_exe # "" /\ StartsWith(ret.value, "env ")

\* C2: with sudosh_detection_force on, the flag tokens of the invocation hold
\* --ansible-force exactly once, whatever become_flags holds.
C2_ForceExactlyOnce ==
    (Built /\ args.sudosh_detection_force) => Count(frame.all_flags, "--ansible-force") = 1

Letters == CharSet(LowerCase) \cup CharSet(UpperCase)

\* a dash followed by letters only
ShortForm(t) ==
    Len(t) >= 2 /\ CharAt(t, 1) = "-" /\ CharSet(SubSeq(t, 2, Len(t))) \subseteq Letters

ShortForms(tokens) == SelectSeq(tokens, ShortForm)

NotBareDash(t) == t # "-"

\* each short-form token without its letters n, the emptied ones dropped
WithoutN(tokens) ==
    SelectSeq([i \in DOMAIN tokens |-> Replace(tokens[i], "n", "")], NotBareDash)

ConfiguredFlags ==
    IF args.become_flags # "" THEN args.become_flags ELSE "--ansible-detect --ansible-verbose"

\* C3: with become_pass set, no flag token of the invocation is -n or
\* --non-interactive, and the short-form tokens are those of the configured
\* flags with the letter n taken out and every other letter kept in order.
C3_NonInteractiveStripped ==
    (Built /\ args.become_pass # "") =>
        /\ \A i \in DOMAIN frame.all_flags :
              frame.all_flags[i] \notin {"-n", "--non-interactive"}
        /\ ShortForms(frame.all_flags) = WithoutN(ShortForms(ShlexSplit(ConfiguredFlags).tokens))

NotVerbose(t) == t # "--ansible-verbose"

\* C4: with sudosh_detection_verbose off and --ansible-verbose among the tokens
\* of become_flags, no flag token of the invocation is --ansible-verbose and the
\* other tokens of become_flags are all there, unchanged and in order.  (Stated
\* for calls without become_pass, which rewrite the tokens no further.)
C4_VerboseStripped ==
    (/\ Built
     /\ ~args.sudosh_detection_verbose
     /\ args.become_pass = ""
     /\ \E i \in DOMAIN ShlexSplit(args.become_flags).tokens :
           ShlexSplit(args.become_flags).tokens[i] = "--ansible-verbose")
    => LET kept == SelectSeq(ShlexSplit(args.become_flags).tokens, NotVerbose) IN
       /\ Count(frame.all_flags, "--ansible-verbose") = 0
       /\ Len(frame.all_flags) >= Len(kept)
       /\ SubSeq(frame.all_flags, 1, Len(kept)) = kept

\* C5: build_become_command with an empty cmd returns cmd as it is, raises
\* nothing and leaves self.prompt as it was, whatever the options are.
C5_EmptyCmdNoOp ==
    [][(op' = "build_become_command" /\ args'.cmd = "")
          => (ret' = [kind |-> "return", value |-> args'.cmd] /\ prompt' = prompt)]_vars

C5_Witness ==
    /\ op = "build_become_command"
    /\ args.cmd = ""
    /\ args.become_pass # ""
    /\ args.become_flags = "\"-x"
    /\ ret = [kind |-> "return", value |-> ""]
    /\ prompt = ""

C7_NoFlagsSegment ==
    (Built /\ args.become_flags = "") =>
        Len(frame.cmd_parts) - ExeIndex(frame.cmd_parts)
            = (IF args.become_user # "" THEN 2 ELSE 1)

\* C7 as amended: with become_flags empty the default flag string stands in
\* for it: the executable is followed by a flags segment that begins with
\* --ansible-detect, and that by `-u <user>` or by the wrapped command.
C7_DefaultFlagsSegment ==
    (Built /\ args.become_flags = "") =>
        /\ Len(frame.cmd_parts) - ExeIndex(frame.cmd_parts)
              = (IF args.become_user # "" THEN 3 ELSE 2)
        /\ FirstToken(frame.cmd_parts[ExeIndex(frame.cmd_parts) + 1]) = "--ansible-detect"
        /\ frame.all_flags[1] = "--ansible-detect"

C7_Witness ==
    /\ Built
    /\ args.become_flags = ""
    /\ args.become_user = ""
    /\ ~args.sudosh_session_log
    /\ frame.all_flags = <<"--ansible-detect", "--ansible-verbose", "--ansible-verbose", "--no-session-log">>

----------------------------------------------------------------------------
(* Properties of the classifiers *)

\* C8: on an output that is one JSON object with the keys success and
\* exit_code, check_success returns the value of its success field.
C8_JsonSuccessField ==
    op = "check_success" =>
        \A j \in JsonResponses : args.b_output = JsonDumps(j) => ret.value = j.success

\* C9: check_incorrect_password returns true on the structured response whose
\* success is false and whose error is "Incorrect password".
C9_JsonIncorrectPassword ==
    (/\ op = "check_incorrect_password"
     /\ args.b_output = "{\"success\": false, \"exit_code\": 1, \"error\": \"Incorrect password\"}")
    => ret.value = TRUE

\* C10: check_success returns true on every output one line of which contains
\* the legacy marker SUDOSH_ANSIBLE_SUCCESS.
C10_LegacyMarker ==
    (/\ op = "check_success"
     /\ \E i \in DOMAIN SplitLines(args.b_output) :
           Contains(SplitLines(args.b_output)[i], "SUDOSH_ANSIBLE_SUCCESS"))
    => ret.value = TRUE

\* some line of the output contains one of the fixed success markers
HasSuccessMarker(b_output) ==
    LET lines == SplitLines(b_output) IN
    \E i \in DOMAIN lines : \E k \in DOMAIN success_indicators :
       Contains(lines[i], success_indicators[k])

OneLine(b_output) == Len(SplitLines(b_output)) = 1

\* C13 as claimed: on every one-line output containing one of the three success
\* markers, check_password_prompt returns false.
C13_SuccessLineIsNoPrompt ==
    (/\ op = "check_password_prompt"
     /\ OneLine(args.b_output)
     /\ HasSuccessMarker(args.b_output))
    => ret.value = FALSE

\* C13 as amended: on every one-line output containing one of the three success
\* markers, check_password_prompt returns true as well, since each marker
\* contains the prompt marker `sudosh:`.
C13_SuccessLineIsAlsoPrompt ==
    (/\ op = "check_password_prompt"
     /\ OneLine(args.b_output)
     /\ HasSuccessMarker(args.b_output))
    => ret.value = TRUE

\* a success marker inside other text, no prompt expected, classified as a prompt
C13_Witness ==
    /\ op = "check_password_prompt"
    /\ prompt = ""
    /\ args.b_output = "  [ok] sudosh: authentication successful (deploy)"
    /\ check_success(args.b_output, success)
    /\ ret.value = TRUE

----------------------------------------------------------------------------
(* Properties of a reused instance *)

\* the prompt escalation e's own build set: one carrying its identifier when it
\* had become_pass configured, none when it had not
OwnPrompt(e) ==
    IF callers[e].become_pass # "" THEN PromptFor(callers[e].id) ELSE ""

\* C12: on a reused instance, in any interleaving of the escalations' calls,
\* the prompt check_password_prompt consults for an escalation is the one that
\* escalation's own build set, and it is set exactly when that build had
\* become_pass configured.
C12_OwnPromptConsulted ==
    [][\A e \in Escalations :
          (callers[e].pc = "built" /\ callers'[e].pc = "idle") => prompt = OwnPrompt(e)]_vars

----------------------------------------------------------------------------
(* The target user of an invocation *)

\* the users the ANSIBLE_BECOME_USER annotations of the invocation name
AnnotatedUsers(parts) ==
    {SubSeq(parts[i], Len("ANSIBLE_BECOME_USER=") + 1, Len(parts[i])) :
        i \in {j \in 1..(ExeIndex(parts) - 1) : StartsWith(parts[j], "ANSIBLE_BECOME_USER=")}}

\* the users the `-u <user>` tokens of the invocation select: those between
\* the executable and the wrapped command
SelectedUsers(parts) ==
    {SubSeq(parts[i], Len("-u ") + 1, Len(parts[i])) :
        i \in {j \in (ExeIndex(parts) + 1)..(Len(parts) - 1) : StartsWith(parts[j], "-u ")}}

\* C14 as claimed: for every non-empty cmd and every configuration, no
\* become_user included, the user the ANSIBLE_BECOME_USER annotation names is
\* the user the `-u <user>` token of the same invocation selects.
C14_AnnotatedUserIsSelected ==
    Built =>
        /\ AnnotatedUsers(frame.cmd_parts) # {}
        /\ AnnotatedUsers(frame.cmd_parts) = SelectedUsers(frame.cmd_parts)

\* C14 as amended: with a become_user configured the annotation names it and
\* `-u` selects it; with none configured the annotation names root and the
\* invocation has no `-u` token.
C14_AnnotatedUserSelectedWhenConfigured ==
    Built =>
        /\ AnnotatedUsers(frame.cmd_parts) = {ResolvedUser}
        /\ SelectedUsers(frame.cmd_parts)
              = (IF args.become_user # "" THEN {args.become_user} ELSE {})

\* no become_user: root is annotated and no user is selected
C14_Witness ==
    /\ Built
    /\ args.become_user = ""
    /\ args.become_pass # ""
    /\ AnnotatedUsers(frame.cmd_parts) = {"root"}
    /\ SelectedUsers(frame.cmd_parts) = {}
    /\ ~Contains(ret.value, " -u ")

====
